---- MODULE Spec2Model ----
(***************************************************************************)
(* A model of package csv2md (src/csv2md.go): the Transmogrifier, its      *)
(* schema setters (SetFieldNames, SetFieldAlignment, SetFieldFmt, SetFmt,  *)
(* SetNewLine) and MDTable with writeHeaderRecord and writeRecord.         *)
(*                                                                         *)
(* A Go string is a sequence of one-character strings, so that trimming,   *)
(* lower-casing and concatenation are computed and not assumed.  The CSV   *)
(* record source and the io.Writer are the environment: every Read yields  *)
(* a record, io.EOF or an error, and every Write answers (n, err).         *)
(***************************************************************************)
EXTENDS Integers, Sequences, FiniteSets, TLC

\* ------------------------------------------------------------------ bounds
\* most fields of a record, and most entries of a schema array
MaxCols == 2
\* most records one MDTable run reads before the source ends
MaxRecs == 2
\* most rows of a format source
MaxFmtRows == 4
\* the latest write of a run at which the sink may fault
MaxFaultAt == 9

\* ----------------------------------------------------------------- strings
Pipe == <<"|">>
Space == <<" ">>

\* src/csv2md.go:21-30
left == <<":", "-", "-">>
centered == <<":", "-", "-", ":">>
right == <<"-", "-", ":">>
none == <<"-", "-", "-">>
italic == <<"_">>
bold == <<"_", "_">>
strikethrough == <<"~", "~">>
noStyle == <<>>

\* unicode.ToLower on the characters of the model's alphabet
LowerChar(c) ==
  CASE c = "L" -> "l" [] c = "E" -> "e" [] c = "F" -> "f" [] c = "T" -> "t"
    [] c = "C" -> "c" [] c = "N" -> "n" [] c = "R" -> "r" [] c = "D" -> "d"
    [] c = "I" -> "i" [] c = "G" -> "g" [] c = "H" -> "h" [] c = "B" -> "b"
    [] c = "O" -> "o" [] c = "S" -> "s" [] c = "A" -> "a" [] c = "K" -> "k"
    [] c = "U" -> "u" [] OTHER -> c

\* strings.ToLower
ToLower(s) == [i \in 1..Len(s) |-> LowerChar(s[i])]

\* unicode.IsSpace on the characters of the model's alphabet
IsSpace(c) == c \in {" ", "\t", "\n", "\r"}

RECURSIVE TrimLeft(_)
TrimLeft(s) == IF s # <<>> /\ IsSpace(Head(s)) THEN TrimLeft(Tail(s)) ELSE s

RECURSIVE TrimRight(_)
TrimRight(s) ==
  IF s # <<>> /\ IsSpace(s[Len(s)]) THEN TrimRight(SubSeq(s, 1, Len(s) - 1)) ELSE s

\* strings.TrimSpace
TrimSpace(s) == TrimRight(TrimLeft(s))

\* all sequences over S of length lo..hi
SeqsOf(S, lo, hi) == UNION {[1..k -> S] : k \in lo..hi}

\* ------------------------------------------------------------------- state
VARIABLES
  HasHeaderRecord,  \* Transmogrifier.HasHeaderRecord
  fieldNames,       \* Transmogrifier.fieldNames
  fieldAlignment,   \* Transmogrifier.fieldAlignment
  fieldFmt,         \* Transmogrifier.fieldFmt
  newLine,          \* Transmogrifier.newLine
  wBytes,           \* Transmogrifier.wBytes
  pc,               \* "config": MDTable not yet called; "loop": in MDTable's
                    \* read loop; "done": MDTable returned; "panic": MDTable
                    \* stopped on a run-time panic
  row,              \* MDTable's local row
  retErr,           \* what MDTable or the last SetFmt returned
  recs,             \* the records CSV.Read has returned in this run
  out,              \* the writes issued to w, in order
  sink,             \* how the io.Writer behaves in this run
  call              \* the last setter called, its argument, and what the
                    \* call found (pre)

vars == <<HasHeaderRecord, fieldNames, fieldAlignment, fieldFmt, newLine, wBytes,
          pc, row, retErr, recs, out, sink, call>>

Nil == "nil"
SinkErr == "sink error"
ReadErr == "read error"
NoFormatData == "no format data found"
Panic == "index out of range"

\* a sink that accepts every write in full
NoFault == [at |-> 0, kind |-> "none"]

\* src/csv2md.go:61-63
Init ==
  /\ HasHeaderRecord = TRUE
  /\ fieldNames = <<>>
  /\ fieldAlignment = <<>>
  /\ fieldFmt = <<>>
  /\ newLine = <<" ", " ", "\n">>
  /\ wBytes = 0
  /\ pc = "config"
  /\ row = 0
  /\ retErr = Nil
  /\ recs = <<>>
  /\ out = <<>>
  /\ sink = NoFault
  /\ call = [op |-> "NewTransmogrifier", arg |-> <<>>, pre |-> <<>>]

\* ----------------------------------------------------------------- setters
\* the caller's assignment to the exported field HasHeaderRecord
SetHasHeaderRecord(b) ==
  /\ pc = "config"
  /\ HasHeaderRecord' = b
  /\ call' = [op |-> "HasHeaderRecord", arg |-> <<>>, pre |-> <<>>]
  /\ UNCHANGED <<fieldNames, fieldAlignment, fieldFmt, newLine, wBytes, pc, row,
                 retErr, recs, out, sink>>

\* lines 92-93 setting carriage-return + line-feed
NewLineForCRLF(s, cur) ==
  CASE s \in {<<"c", "r">>, <<"C", "R">>, <<"\n">>} -> <<" ", " ", "\n">>
    [] s \in {<<"l", "f">>, <<"L", "F">>, <<"\r">>} -> <<" ", " ", "\r">>
    [] s \in {<<"c", "r", "l", "f">>, <<"C", "R", "L", "F">>, <<"\r", "\n">>} ->
         <<" ", " ", "\r", "\n">>
    [] OTHER -> cur

\* src/csv2md.go:85-94
NewLineFor(s, cur) ==
  CASE s \in {<<"c", "r">>, <<"C", "R">>, <<"\n">>} -> <<" ", " ", "\n">>
    [] s \in {<<"l", "f">>, <<"L", "F">>, <<"\r">>} -> <<" ", " ", "\r">>
    [] s \in {<<"c", "r", "l", "f">>, <<"C", "R", "L", "F">>, <<"\r", "\n">>} ->
         <<" ", " ", " ", "\r">>
    [] OTHER -> cur

SetNewLine(s) ==
  /\ pc = "config"
  /\ newLine' = NewLineFor(s, newLine)
  /\ call' = [op |-> "SetNewLine", arg |-> s, pre |-> newLine]
  /\ UNCHANGED <<HasHeaderRecord, fieldNames, fieldAlignment, fieldFmt, wBytes, pc,
                 row, retErr, recs, out, sink>>

\* src/csv2md.go:100-103
SetFieldNames(vals) ==
  /\ pc = "config"
  /\ Len(fieldNames) + Len(vals) <= MaxCols
  /\ fieldNames' = fieldNames \o vals
  /\ call' = [op |-> "SetFieldNames", arg |-> vals, pre |-> fieldNames]
  /\ UNCHANGED <<HasHeaderRecord, fieldAlignment, fieldFmt, newLine, wBytes, pc, row,
                 retErr, recs, out, sink>>

\* src/csv2md.go:107-117: the marker one alignment token resolves to
AlignmentOf(v) ==
  LET t == TrimSpace(ToLower(v))
  IN  CASE t \in {<<"l">>, <<"l", "e", "f", "t">>} -> left
        [] t \in {<<"c">>, <<"c", "e", "n", "t", "e", "r">>,
                  <<"c", "e", "n", "t", "e", "r", "e", "d">>} -> centered
        [] t \in {<<"r">>, <<"r", "i", "g", "h", "t">>} -> right
        [] OTHER -> none

\* src/csv2md.go:105-120: the array after SetFieldAlignment(vals)
AppendAlignment(cur, vals) == cur \o [i \in 1..Len(vals) |-> AlignmentOf(vals[i])]

SetFieldAlignment(vals) ==
  /\ pc = "config"
  /\ Len(fieldAlignment) + Len(vals) <= MaxCols
  /\ fieldAlignment' = AppendAlignment(fieldAlignment, vals)
  /\ call' = [op |-> "SetFieldAlignment", arg |-> vals, pre |-> fieldAlignment]
  /\ UNCHANGED <<HasHeaderRecord, fieldNames, fieldFmt, newLine, wBytes, pc, row,
                 retErr, recs, out, sink>>

\* src/csv2md.go:124-134: the marker one style token resolves to
FmtOf(v) ==
  LET t == TrimSpace(ToLower(v))
  IN  CASE t \in {<<"b">>, <<"b", "o", "l", "d">>} -> bold
        [] t \in {<<"i">>, <<"i", "t", "a", "l", "i", "c">>,
                  <<"i", "t", "a", "l", "i", "c", "s">>} -> italic
        [] t \in {<<"s">>,
                  <<"s", "t", "r", "i", "k", "e", "t", "h", "r", "o", "u", "g", "h">>} ->
             strikethrough
        [] OTHER -> noStyle

\* src/csv2md.go:122-136: the array after SetFieldFmt(vals)
AppendFmt(cur, vals) == cur \o [i \in 1..Len(vals) |-> FmtOf(vals[i])]

SetFieldFmt(vals) ==
  /\ pc = "config"
  /\ Len(fieldFmt) + Len(vals) <= MaxCols
  /\ fieldFmt' = AppendFmt(fieldFmt, vals)
  /\ call' = [op |-> "SetFieldFmt", arg |-> vals, pre |-> fieldFmt]
  /\ UNCHANGED <<HasHeaderRecord, fieldNames, fieldAlignment, newLine, wBytes, pc,
                 row, retErr, recs, out, sink>>

\* lines 168-170 reading the style tokens from the last row
FmtSchemaLastRow(records, names, alignment, style) ==
  [names |-> records[1],
   alignment |-> IF Len(records) > 1 THEN AppendAlignment(alignment, records[2])
                 ELSE alignment,
   style |-> IF Len(records) > 2 THEN AppendFmt(style, records[Len(records)]) ELSE style]

\* src/csv2md.go:160-171: the schema SetFmt leaves, given the records read
FmtSchema(records, names, alignment, style) ==
  [names |-> records[1],
   alignment |-> IF Len(records) > 1 THEN AppendAlignment(alignment, records[2])
                 ELSE alignment,
   style |-> IF Len(records) > 2 THEN AppendFmt(style, records[3]) ELSE style]

\* src/csv2md.go:153-159: the error SetFmt returns before it sets anything
FmtError(records, readErr) ==
  IF readErr THEN ReadErr ELSE IF Len(records) = 0 THEN NoFormatData ELSE Nil

\* lines 161-162 moved before the tests of lines 154-159
FailedSchemaNamesCleared(names, alignment, style) ==
  [names |-> <<>>, alignment |-> alignment, style |-> style]

\* src/csv2md.go:154-159: SetFmt returns the error with the schema as it was
FailedSchema(names, alignment, style) ==
  [names |-> names, alignment |-> alignment, style |-> style]

\* no schema array has been set
Fresh == fieldNames = <<>> /\ fieldAlignment = <<>> /\ fieldFmt = <<>>

\* src/csv2md.go:144-172.  records is what c.ReadAll() returns; readErr says
\* that it returned an error instead.
SetFmt(records, readErr) ==
  /\ pc = "config"
  /\ call' = [op |-> IF readErr THEN "SetFmt: read error" ELSE "SetFmt",
              arg |-> records,
              pre |-> IF readErr \/ Len(records) = 0
                      THEN <<fieldNames, fieldAlignment, fieldFmt>>
                      ELSE <<Fresh>>]
  /\ IF FmtError(records, readErr) # Nil
     THEN LET s == FailedSchema(fieldNames, fieldAlignment, fieldFmt)
          IN  /\ retErr' = FmtError(records, readErr)
              /\ fieldNames' = s.names
              /\ fieldAlignment' = s.alignment
              /\ fieldFmt' = s.style
     ELSE LET s == FmtSchema(records, fieldNames, fieldAlignment, fieldFmt)
          IN  /\ Len(s.alignment) <= MaxCols
              /\ Len(s.style) <= MaxCols
              /\ fieldNames' = s.names
              /\ fieldAlignment' = s.alignment
              /\ fieldFmt' = s.style
              /\ retErr' = Nil
  /\ UNCHANGED <<HasHeaderRecord, newLine, wBytes, pc, row, recs, out, sink>>

\* ---------------------------------------------------------------- the sink
\* t.w.Write(bytes), the k-th write of the run: the count and error returned.
\* A sink faults at most once in a run, either with an error or by accepting
\* one byte less than asked without an error.
SinkWrite(plan, k, bytes) ==
  IF plan.at = k /\ plan.kind = "err" THEN [n |-> 0, err |-> SinkErr]
  ELSE IF plan.at = k /\ plan.kind = "short" /\ Len(bytes) > 0
  THEN [n |-> Len(bytes) - 1, err |-> Nil]
  ELSE [n |-> Len(bytes), err |-> Nil]

\* `t.wBytes, err = t.w.Write([]byte(s))` (src/csv2md.go:218, 223, 235, 240,
\* 248, 250, 265, 270).  w holds the writes so far, t.wBytes and err; op names
\* the statement that writes, r and c are the row and column it writes for.
Write(w, plan, op, bytes, r, c) ==
  LET a == SinkWrite(plan, Len(w.out) + 1, bytes)
  IN  [out |-> Append(w.out, [op |-> op, bytes |-> bytes, n |-> a.n, err |-> a.err,
                              row |-> r, col |-> c]),
       wBytes |-> a.n,
       err |-> a.err]

\* src/csv2md.go:215-217, 232-234, 245-247, 262-264: all fields but the last
\* are followed by a pipe (i counts from 1 here)
Delimit(field, i, count) == IF i < count THEN field \o Pipe ELSE field

\* src/csv2md.go:214-222
RECURSIVE WriteNames(_, _, _, _, _)
WriteNames(w, plan, fields, i, r) ==
  IF i > Len(fields) THEN w
  ELSE LET w2 == Write(w, plan, "header field", Delimit(fields[i], i, Len(fields)), r, i)
       IN  IF w2.err # Nil THEN w2 ELSE WriteNames(w2, plan, fields, i + 1, r)

\* src/csv2md.go:230-239
RECURSIVE WriteDefaultSeparators(_, _, _, _, _)
WriteDefaultSeparators(w, plan, count, i, r) ==
  IF i > count THEN w
  ELSE LET w2 == Write(w, plan, "separator", Delimit(none, i, count), r, i)
       IN  IF w2.err # Nil THEN w2 ELSE WriteDefaultSeparators(w2, plan, count, i + 1, r)

\* src/csv2md.go:243-249: err is assigned by every write and never tested
RECURSIVE WriteAlignment(_, _, _, _)
WriteAlignment(w, plan, i, r) ==
  IF i > Len(fieldAlignment) THEN w
  ELSE WriteAlignment(
         Write(w, plan, "separator",
               Delimit(fieldAlignment[i], i, Len(fieldAlignment)), r, i),
         plan, i + 1, r)

\* line 228 always taking the default branch
DefaultSeparatorAlways == TRUE

\* src/csv2md.go:228
DefaultSeparator == Len(fieldAlignment) = 0

\* src/csv2md.go:211-252
writeHeaderRecord(w, plan, fields, r) ==
  LET w1 == WriteNames(w, plan, fields, 1, r)
      w2 == Write(w1, plan, "newline", newLine, r, 0)
      w3 == WriteDefaultSeparators(w2, plan, Len(fields), 1, r)
      w4 == Write(w3, plan, "separator newline", newLine, r, 0)
      w5 == Write(WriteAlignment(w2, plan, 1, r), plan, "separator newline", newLine, r, 0)
  IN  IF w1.err # Nil THEN w1
      ELSE IF w2.err # Nil THEN w2
      ELSE IF DefaultSeparator
      THEN IF w3.err # Nil THEN w3 ELSE [w4 EXCEPT !.err = Nil]
      ELSE w5

\* src/csv2md.go:256
Format == Len(fieldFmt) > 0

\* line 260 without the closing marker
StyledPrefixOnly(field, i) == IF Format THEN fieldFmt[i] \o field ELSE field

\* src/csv2md.go:259-261, for an index within fieldFmt
Styled(field, i) == IF Format THEN fieldFmt[i] \o field \o fieldFmt[i] ELSE field

\* src/csv2md.go:258-269.  Indexing fieldFmt beyond its length panics.
RECURSIVE WriteFields(_, _, _, _, _)
WriteFields(w, plan, fields, i, r) ==
  IF i > Len(fields) THEN w
  ELSE IF Format /\ i > Len(fieldFmt) THEN [w EXCEPT !.err = Panic]
  ELSE LET w2 == Write(w, plan, "data field",
                       Delimit(Styled(fields[i], i), i, Len(fields)), r, i)
       IN  IF w2.err # Nil THEN w2 ELSE WriteFields(w2, plan, fields, i + 1, r)

\* src/csv2md.go:254-272
writeRecord(w, plan, fields, r) ==
  LET w1 == WriteFields(w, plan, fields, 1, r)
  IN  IF w1.err # Nil THEN w1 ELSE Write(w1, plan, "data newline", newLine, r, 0)

\* --------------------------------------------------------------- MDTable
\* where MDTable stands after a write helper returned err
After(err) == IF err = Nil THEN "loop" ELSE IF err = Panic THEN "panic" ELSE "done"

\* src/csv2md.go:174-183: the call of MDTable up to its read loop, with the
\* sink the run writes to
MDTableStart(plan) ==
  /\ pc = "config"
  /\ sink' = plan
  /\ LET w0 == [out |-> <<>>, wBytes |-> wBytes, err |-> Nil]
         w == IF Len(fieldNames) > 0 THEN writeHeaderRecord(w0, plan, fieldNames, 0)
              ELSE w0
     IN  /\ out' = w.out
         /\ wBytes' = w.wBytes
         /\ retErr' = w.err
         /\ pc' = After(w.err)
  /\ row' = 0
  /\ recs' = <<>>
  /\ call' = [op |-> "MDTable", arg |-> newLine, pre |-> <<>>]
  /\ UNCHANGED <<HasHeaderRecord, fieldNames, fieldAlignment, fieldFmt, newLine>>

\* line 193 without the test of HasHeaderRecord
FirstRecordIsHeader(r) == r = 1

\* src/csv2md.go:193
IsHeaderRecord(r) == r = 1 /\ HasHeaderRecord

\* line 194 without its test: the header record is written again
NamesWrittenNever == FALSE

\* src/csv2md.go:194
NamesWritten == Len(fieldNames) > 0

\* src/csv2md.go:185-206: one turn of the loop in which CSV.Read returns
\* record.  The reader's FieldsPerRecord is left at 0, so every record has as
\* many fields as the first.
MDTableRecord(record) ==
  /\ pc = "loop"
  /\ row < MaxRecs
  /\ recs # <<>> => Len(record) = Len(recs[1])
  /\ row' = row + 1
  /\ recs' = Append(recs, record)
  /\ LET w0 == [out |-> out, wBytes |-> wBytes, err |-> Nil]
         w == IF IsHeaderRecord(row + 1)
              THEN IF NamesWritten THEN w0
                   ELSE writeHeaderRecord(w0, sink, record, row + 1)
              ELSE writeRecord(w0, sink, record, row + 1)
     IN  /\ out' = w.out
         /\ wBytes' = w.wBytes
         /\ retErr' = w.err
         /\ pc' = After(w.err)
  /\ UNCHANGED <<HasHeaderRecord, fieldNames, fieldAlignment, fieldFmt, newLine,
                 sink, call>>

\* src/csv2md.go:185-189, 208: CSV.Read returns io.EOF
MDTableEOF ==
  /\ pc = "loop"
  /\ row' = row + 1
  /\ pc' = "done"
  /\ retErr' = Nil
  /\ call' = [call EXCEPT !.op = "MDTable: io.EOF", !.pre = out]
  /\ UNCHANGED <<HasHeaderRecord, fieldNames, fieldAlignment, fieldFmt, newLine,
                 wBytes, recs, out, sink>>

\* lines 190-192 returning nil for every error of Read
ReadErrorSwallowed(err) == Nil

\* src/csv2md.go:190-192: what MDTable returns for an error of Read that is
\* not io.EOF
ReadErrorReturned(err) == err

\* src/csv2md.go:185-192: CSV.Read returns another error
MDTableReadError ==
  /\ pc = "loop"
  /\ row' = row + 1
  /\ pc' = "done"
  /\ retErr' = ReadErrorReturned(ReadErr)
  /\ call' = [call EXCEPT !.op = "MDTable: read error", !.pre = out]
  /\ UNCHANGED <<HasHeaderRecord, fieldNames, fieldAlignment, fieldFmt, newLine,
                 wBytes, recs, out, sink>>

\* ------------------------------------------------------------ environments
\* the format sources of up to MaxFmtRows rows, each with as many fields as
\* the first (the format reader copies FieldsPerRecord = 0): a row of names,
\* a row of alignment tokens, a row of style tokens, then further rows
\* (copies of the first)
FmtSources(N, A, S) ==
  UNION {
    LET R1 == SeqsOf(N, width, width)
        R2 == SeqsOf(A, width, width)
        R3 == SeqsOf(S, width, width)
    IN  {<<r1>> : r1 \in R1}
          \cup {<<r1, r2>> : r1 \in R1, r2 \in R2}
          \cup {<<r1, r2, r3>> : r1 \in R1, r2 \in R2, r3 \in R3}
          \cup {<<r1, r2, r3>> \o [k \in 1..extra |-> r1] :
                  r1 \in R1, r2 \in R2, r3 \in R3, extra \in 1..(MaxFmtRows - 3)}
    : width \in 1..MaxCols}

\* the faults a sink may have
Faults == {[at |-> k, kind |-> f] : k \in 1..MaxFaultAt, f \in {"err", "short"}}

\* one MDTable run: records of R, a sink plan of P
Run(R, P) ==
  \/ \E plan \in P : MDTableStart(plan)
  \/ \E record \in R : MDTableRecord(record)
  \/ MDTableEOF
  \/ MDTableReadError

\* Spec: a caller that sets the schema with the field setters and converts
\* records of empty and non-empty fields to a sink that accepts every write.
Names == {<<"n">>}
AlignTokens == {<<"l">>}
StyleTokens == {<<"b">>, <<>>}
Values == {<<>>, <<"x">>}

NameArgs == SeqsOf(Names, 1, MaxCols)
AlignArgs == SeqsOf(AlignTokens, 1, MaxCols)
StyleArgs == SeqsOf(StyleTokens, 1, MaxCols)
Records == SeqsOf(Values, 1, MaxCols)

Next ==
  \/ \E b \in BOOLEAN : SetHasHeaderRecord(b)
  \/ \E vals \in NameArgs : SetFieldNames(vals)
  \/ \E vals \in AlignArgs : SetFieldAlignment(vals)
  \/ \E vals \in StyleArgs : SetFieldFmt(vals)
  \/ Run(Records, {NoFault})

Spec == Init /\ [][Next]_vars

\* SpecSink: the same caller writing plain records to a sink that may fault
\* once, at any write of the run.
PlainRecords == SeqsOf({<<"x">>}, 1, MaxCols)
SinkPlans == {NoFault} \cup Faults
BoldArgs == SeqsOf({<<"b">>}, 1, MaxCols)

NextSink ==
  \/ \E b \in BOOLEAN : SetHasHeaderRecord(b)
  \/ \E vals \in NameArgs : SetFieldNames(vals)
  \/ \E vals \in AlignArgs : SetFieldAlignment(vals)
  \/ \E vals \in BoldArgs : SetFieldFmt(vals)
  \/ Run(PlainRecords, SinkPlans)

SpecSink == Init /\ [][NextSink]_vars

\* SpecFmt: a caller that sets the schema from format sources and converts
\* plain records.
FmtNames == {<<"n">>, <<"m">>}
FmtAlignTokens == {<<"C">>, <<>>}
FmtStyleTokens == {<<"I">>}
FmtArgs == FmtSources(FmtNames, FmtAlignTokens, FmtStyleTokens)

NextFmt ==
  \/ \E rows \in FmtArgs : SetFmt(rows, FALSE)
  \/ SetFmt(<<>>, FALSE)
  \/ SetFmt(<<>>, TRUE)
  \/ Run(PlainRecords, {NoFault})

SpecFmt == Init /\ [][NextFmt]_vars

\* SpecNewLine: a caller that chooses the newline sequence, sets field names
\* and converts plain records to a sink that may fault once.
NewLineTokens ==
  {<<"c", "r">>, <<"C", "R">>, <<"\n">>, <<"l", "f">>, <<"L", "F">>, <<"\r">>,
   <<"c", "r", "l", "f">>, <<"C", "R", "L", "F">>, <<"\r", "\n">>,
   <<>>, <<"C", "r">>, <<"x">>}

NextNewLine ==
  \/ \E b \in BOOLEAN : SetHasHeaderRecord(b)
  \/ \E s \in NewLineTokens : SetNewLine(s)
  \/ \E vals \in NameArgs : SetFieldNames(vals)
  \/ Run(PlainRecords, SinkPlans)

SpecNewLine == Init /\ [][NextNewLine]_vars

\* SpecResolve: the token resolvers applied to the documented tokens, in
\* either case and with surrounding space, to the literal markers and to
\* unrecognized tokens.
ResolveAlignTokens ==
  {<<>>, <<"l">>, <<"L">>, <<"l", "e", "f", "t">>, <<" ", "L", "e", "f", "t", " ">>,
   <<"c">>, <<"c", "e", "n", "t", "e", "r">>, <<"c", "e", "n", "t", "e", "r", "e", "d">>,
   <<"C", "E", "N", "T", "E", "R", "\t">>,
   <<"r">>, <<"r", "i", "g", "h", "t">>, <<" ", "R">>,
   left, centered, right, none, <<"-">>, <<"z">>}
ResolveStyleTokens ==
  {<<>>, <<"b">>, <<"B">>, <<"b", "o", "l", "d">>, <<" ", "B", "o", "l", "d", " ">>,
   <<"i">>, <<"i", "t", "a", "l", "i", "c">>, <<"i", "t", "a", "l", "i", "c", "s">>,
   <<"I", "T", "A", "L", "I", "C", "\t">>,
   <<"s">>, <<"s", "t", "r", "i", "k", "e", "t", "h", "r", "o", "u", "g", "h">>, <<" ", "S">>,
   bold, italic, strikethrough, <<"a", "d", "s", "f">>, <<"z">>}
ResolveAlignArgs == SeqsOf(ResolveAlignTokens, 0, MaxCols)
ResolveStyleArgs == SeqsOf(ResolveStyleTokens, 0, MaxCols)

NextResolve ==
  \/ \E vals \in ResolveAlignArgs : SetFieldAlignment(vals)
  \/ \E vals \in ResolveStyleArgs : SetFieldFmt(vals)

SpecResolve == Init /\ [][NextResolve]_vars

\* ------------------------------------------------------- reading the output
RECURSIVE Flat(_)
\* the concatenation of a sequence of strings
Flat(ss) == IF ss = <<>> THEN <<>> ELSE Head(ss) \o Flat(Tail(ss))

\* the bytes of the writes ws, in order
Text(ws) == Flat([k \in 1..Len(ws) |-> ws[k].bytes])

\* one line of the table: the cells joined by pipes, then the newline sequence
Line(cells) ==
  Flat([i \in 1..Len(cells) |-> IF i < Len(cells) THEN cells[i] \o Pipe ELSE cells[i]])
    \o newLine

HeaderOps == {"header field", "newline", "separator", "separator newline"}

HeaderWrites == SelectSeq(out, LAMBDA w : w.op \in HeaderOps)
WritesOfRow(r) == SelectSeq(out, LAMBDA w : w.row = r)

\* MDTable is running or has returned, and no write helper stopped it
Proceeding == pc \in {"loop", "done"} /\ retErr \in {Nil, ReadErr}

\* the separator row of a header block of `count` columns
DefaultSeparators(count) == [i \in 1..count |-> none]

\* the style marker of column i
Marker(i) == IF fieldFmt = <<>> THEN <<>> ELSE fieldFmt[i]

\* bytes is field i of `count`, holding v between the column's style markers
IsCell(bytes, v, i, count) ==
  bytes = Marker(i) \o v \o Marker(i) \o (IF i < count THEN Pipe ELSE <<>>)

\* the r-th record read is written as exactly one data row: its fields in
\* order (an empty field as itself or as a space), then the newline sequence
IsDataRow(r) ==
  LET ws == WritesOfRow(r)
      count == Len(recs[r])
  IN  /\ Len(ws) = count + 1
      /\ \A i \in 1..count :
           /\ ws[i].op = "data field"
           /\ ws[i].col = i
           /\ \/ IsCell(ws[i].bytes, recs[r][i], i, count)
              \/ recs[r][i] = <<>> /\ IsCell(ws[i].bytes, Space, i, count)
      /\ ws[count + 1].op = "data newline"
      /\ ws[count + 1].bytes = newLine

\* the writes are issued in the order of the records they are for
InInputOrder == \A j, k \in 1..Len(out) : j < k => out[j].row <= out[k].row

\* the header writes come first
HeaderFirst == \A k \in 1..Len(out) : out[k].op \in HeaderOps <=> k <= Len(HeaderWrites)

C2_FirstRecordHeaderDefaultSeparator ==
  (Proceeding /\ HasHeaderRecord /\ fieldNames = <<>> /\ Len(recs) >= 1) =>
    /\ Text(HeaderWrites) = Line(recs[1]) \o Line(DefaultSeparators(Len(recs[1])))
    /\ HeaderFirst
    /\ \A k \in 1..Len(out) : out[k].op \in HeaderOps <=> out[k].row = 1

\* C2 amended: with HasHeaderRecord and an empty fieldNames, the first record
\* is written as the names row, followed by a separator row that holds "---"
\* once per column of that record when fieldAlignment is empty and the
\* entries of fieldAlignment otherwise, and is not written as a data row.
C2_FirstRecordHeader ==
  (Proceeding /\ HasHeaderRecord /\ fieldNames = <<>> /\ Len(recs) >= 1) =>
    /\ Text(HeaderWrites) =
         Line(recs[1])
           \o Line(IF fieldAlignment = <<>> THEN DefaultSeparators(Len(recs[1]))
                   ELSE fieldAlignment)
    /\ HeaderFirst
    /\ \A k \in 1..Len(out) : out[k].op \in HeaderOps <=> out[k].row = 1

C2_Witness ==
  /\ pc = "done" /\ retErr = Nil
  /\ HasHeaderRecord /\ fieldNames = <<>>
  /\ fieldAlignment = <<left>>
  /\ Len(recs) = 2 /\ Len(recs[1]) = 2
  /\ WritesOfRow(2) # <<>>

\* C3: without HasHeaderRecord every record read, the first included, is
\* written as exactly one data row, in input order; a header block precedes
\* the rows only if fieldNames is non-empty, and with an empty fieldNames no
\* names row and no separator row is written.
C3_NoHeaderRecord ==
  (Proceeding /\ ~HasHeaderRecord) =>
    /\ \A r \in 1..Len(recs) : IsDataRow(r)
    /\ InInputOrder
    /\ HeaderFirst
    /\ fieldNames = <<>> => HeaderWrites = <<>>
    /\ fieldNames # <<>> => HeaderWrites # <<>> /\ WritesOfRow(0) = HeaderWrites

C3_Witness ==
  /\ pc = "done" /\ retErr = Nil
  /\ ~HasHeaderRecord /\ fieldNames = <<>>
  /\ Len(recs) = 2 /\ recs[1] # recs[2]
  /\ Len(out) = 2 * (Len(recs[1]) + 1)

\* C4: in every data row an empty field is written as a single space, before
\* any style wrapping, and a non-empty field is written unchanged.
C4_EmptyFieldAsSpace ==
  \A k \in 1..Len(out) :
    out[k].op = "data field" =>
      LET v == recs[out[k].row][out[k].col]
      IN  IsCell(out[k].bytes, IF v = <<>> THEN Space ELSE v, out[k].col,
                 Len(recs[out[k].row]))

\* C5: with a style schema every field of every data row is written as
\* marker + value + marker, the marker being the style entry of the field's
\* column (empty for no style); a name of the header row is never wrapped,
\* whether it comes from fieldNames or from the first record.
C5_StyleWrapsDataOnly ==
  /\ \A k \in 1..Len(out) :
       LET w == out[k]
       IN  /\ (w.op = "data field" /\ fieldFmt # <<>>) =>
                \E v \in {recs[w.row][w.col]}
                         \cup (IF recs[w.row][w.col] = <<>> THEN {Space} ELSE {}) :
                  w.bytes = fieldFmt[w.col] \o v \o fieldFmt[w.col]
                              \o (IF w.col < Len(recs[w.row]) THEN Pipe ELSE <<>>)
           /\ w.op = "header field" =>
                LET names == IF w.row = 0 THEN fieldNames ELSE recs[1]
                IN  w.bytes = names[w.col] \o (IF w.col < Len(names) THEN Pipe ELSE <<>>)
  /\ Proceeding =>
       \A r \in 1..Len(recs) : (r = 1 /\ HasHeaderRecord) \/ IsDataRow(r)

C5_Witness ==
  /\ pc = "done" /\ retErr = Nil
  /\ fieldFmt = <<bold, noStyle>>
  /\ HasHeaderRecord /\ fieldNames = <<>>
  /\ Len(recs) = 2 /\ recs[2] = <<<<"x">>, <<"x">>>>
  /\ \E k \in 1..Len(out) : out[k].op = "data field" /\ out[k].col = 1

\* the ShortWriteError (src/csv2md.go:31-39) that names the logical write op
ShortWriteErrorOf(op) ==
  CASE op = "header field" -> "short write of header field"
    [] op = "separator" -> "short write of separator"
    [] op = "data field" -> "short write of data field"
    [] OTHER -> "short write of newline"

\* C6: whenever the sink reports, without an error, a count of accepted
\* bytes other than the number of bytes requested, MDTable returns a
\* ShortWriteError naming that write and issues no further write.
C6_ShortWriteAborts ==
  \A k \in 1..Len(out) :
    (out[k].err = Nil /\ out[k].n # Len(out[k].bytes)) =>
      /\ k = Len(out)
      /\ pc = "done"
      /\ retErr = ShortWriteErrorOf(out[k].op)

\* C7: whenever the sink returns an error for a write (names row, separator
\* row, data row or line terminator), MDTable issues no further write and
\* returns that error.
C7_SinkErrorAborts ==
  \A k \in 1..Len(out) :
    out[k].err # Nil =>
      /\ k = Len(out)
      /\ pc = "done"
      /\ retErr = out[k].err

\* the marker C8 gives for an alignment token
ClaimedAlignment(v) ==
  LET t == TrimSpace(ToLower(v))
  IN  CASE t \in {<<"l">>, <<"l", "e", "f", "t">>, <<":", "-", "-">>} -> <<":", "-", "-">>
        [] t \in {<<"c">>, <<"c", "e", "n", "t", "e", "r">>,
                  <<"c", "e", "n", "t", "e", "r", "e", "d">>, <<":", "-", "-", ":">>} ->
             <<":", "-", "-", ":">>
        [] t \in {<<"r">>, <<"r", "i", "g", "h", "t">>, <<"-", "-", ":">>} -> <<"-", "-", ":">>
        [] OTHER -> <<"-", "-", "-">>

\* C8: SetFieldAlignment adds one entry per token, in order: left for l,
\* left and ":--", center for c, center, centered and ":--:", right for r,
\* right and "--:", none for anything else, after trimming and lower-casing.
C8_AlignmentTokens ==
  call.op = "SetFieldAlignment" =>
    fieldAlignment = call.pre \o [i \in 1..Len(call.arg) |-> ClaimedAlignment(call.arg[i])]

\* the marker C9 gives for a style token
ClaimedStyle(v) ==
  LET t == TrimSpace(ToLower(v))
  IN  CASE t \in {<<"b">>, <<"b", "o", "l", "d">>, <<"_", "_">>} -> <<"_", "_">>
        [] t \in {<<"i">>, <<"i", "t", "a", "l", "i", "c">>,
                  <<"i", "t", "a", "l", "i", "c", "s">>, <<"_">>} -> <<"_">>
        [] t \in {<<"s">>,
                  <<"s", "t", "r", "i", "k", "e", "t", "h", "r", "o", "u", "g", "h">>,
                  <<"~", "~">>} -> <<"~", "~">>
        [] OTHER -> <<>>

\* C9: SetFieldFmt adds one entry per token, in order: bold for b, bold and
\* "__", italic for i, italic, italics and "_", strikethrough for s,
\* strikethrough and "~~", no style for anything else, after trimming and
\* lower-casing.
C9_StyleTokens ==
  call.op = "SetFieldFmt" =>
    fieldFmt = call.pre \o [i \in 1..Len(call.arg) |-> ClaimedStyle(call.arg[i])]

\* C10: SetFmt on a fresh Transmogrifier with a source of n >= 1 rows leaves
\* fieldNames = row 1, fieldAlignment = the resolved tokens of row 2 if
\* n >= 2 and empty otherwise, fieldFmt = the resolved tokens of row 3 if
\* n >= 3 and empty otherwise, whatever the rows after the third hold; and
\* with an empty fieldAlignment every separator MDTable writes is "---", with
\* an empty fieldFmt every data field is written without a marker.
C10_SetFmtRows ==
  /\ (pc = "config" /\ call.op = "SetFmt" /\ retErr = Nil /\ call.pre = <<TRUE>>) =>
       LET rows == call.arg
       IN  /\ fieldNames = rows[1]
           /\ fieldAlignment =
                IF Len(rows) >= 2
                THEN [i \in 1..Len(rows[2]) |-> AlignmentOf(rows[2][i])] ELSE <<>>
           /\ fieldFmt =
                IF Len(rows) >= 3
                THEN [i \in 1..Len(rows[3]) |-> FmtOf(rows[3][i])] ELSE <<>>
  /\ \A k \in 1..Len(out) :
       /\ (fieldAlignment = <<>> /\ out[k].op = "separator") =>
            out[k].bytes \in {none, none \o Pipe}
       /\ (fieldFmt = <<>> /\ out[k].op = "data field") =>
            out[k].bytes \in {recs[out[k].row][out[k].col],
                              recs[out[k].row][out[k].col] \o Pipe}

C10_Witness ==
  /\ pc = "config" /\ call.op = "SetFmt" /\ retErr = Nil /\ call.pre = <<TRUE>>
  /\ Len(call.arg) = 4
  /\ fieldNames = <<<<"n">>, <<"m">>>>
  /\ fieldAlignment = <<centered, none>>
  /\ fieldFmt = <<italic, italic>>

\* the schema a format source alone determines: row 1, the resolved row 2,
\* the resolved row 3
SchemaOf(rows) ==
  <<rows[1],
    IF Len(rows) >= 2 THEN [i \in 1..Len(rows[2]) |-> AlignmentOf(rows[2][i])] ELSE <<>>,
    IF Len(rows) >= 3 THEN [i \in 1..Len(rows[3]) |-> FmtOf(rows[3][i])] ELSE <<>>>>

\* C11: SetFmt overwrites: whatever SetFmt calls came before, after a
\* successful SetFmt the names, alignment and style are those the same call
\* leaves on a fresh Transmogrifier; nothing is appended.
C11_SetFmtOverwrites ==
  (pc = "config" /\ call.op = "SetFmt" /\ retErr = Nil) =>
    <<fieldNames, fieldAlignment, fieldFmt>> = SchemaOf(call.arg)

\* C12: a SetFmt that fails, on a source without rows or on a tokenizer
\* error, returns a non-nil error and leaves names, alignment and style as
\* they were before the call.
C12_FailedSetFmtKeepsSchema ==
  /\ (pc = "config" /\ call.op = "SetFmt: read error") => retErr = ReadErr
  /\ (pc = "config" /\ call.op = "SetFmt" /\ call.arg = <<>>) =>
       retErr = NoFormatData
  /\ (pc = "config" /\ call.op \in {"SetFmt", "SetFmt: read error"}
        /\ retErr # Nil) =>
       <<fieldNames, fieldAlignment, fieldFmt>> = call.pre

C12_Witness ==
  /\ pc = "config" /\ call.op = "SetFmt"
  /\ retErr = NoFormatData
  /\ fieldNames # <<>> /\ fieldAlignment # <<>> /\ fieldFmt # <<>>

\* the newline sequence the documentation gives for an argument of SetNewLine
ClaimedNewLine(s, cur) ==
  IF s \in {<<"c", "r">>, <<"C", "R">>, <<"\n">>} THEN <<" ", " ", "\n">>
  ELSE IF s \in {<<"l", "f">>, <<"L", "F">>, <<"\r">>} THEN <<" ", " ", "\r">>
  ELSE IF s \in {<<"c", "r", "l", "f">>, <<"C", "R", "L", "F">>, <<"\r", "\n">>}
  THEN <<" ", " ", " ", "\r">>
  ELSE cur

NewLineOps == {"newline", "separator newline", "data newline"}

\* the line of the table a write belongs to
LineOf(w) == <<w.row, w.op \in {"separator", "separator newline"}>>

C14_DoneAndFailedAreTerminal ==
  /\ call.op = "MDTable: io.EOF" => (pc = "done" /\ retErr = Nil /\ out = call.pre)
  /\ call.op = "MDTable: read error" =>
       (pc = "done" /\ retErr = ReadErr /\ out = call.pre)
  /\ pc = "done" =>
       ~ ENABLED (\/ \E record \in Records : MDTableRecord(record)
                  \/ MDTableEOF
                  \/ MDTableReadError)

C14_Witness ==
  /\ call.op = "MDTable: read error"
  /\ retErr = ReadErr
  /\ row = 2
  /\ \E k \in 1..Len(out) : out[k].row = 0 /\ out[k].op = "header field"
  /\ \E k \in 1..Len(out) : out[k].op = "data field"

RECURSIVE Accepted(_)
\* the sum of the byte counts the sink reported for the writes ws
Accepted(ws) == IF ws = <<>> THEN 0 ELSE Head(ws).n + Accepted(Tail(ws))

\* C15: after every write of a run the bytes-written counter is the sum of
\* the counts the sink reported for all writes of the run so far.
C15_BytesWrittenIsRunningTotal ==
  (pc # "config" /\ out # <<>>) => wBytes = Accepted(out)

\* C16: a style schema shorter than a data row's record is never read at or
\* beyond its length: MDTable does not fault with an index out of range.
C16_NoStyleIndexOutOfRange ==
  pc # "panic" /\ retErr # Panic

====
